---- MODULE Spec2Model ----
(***************************************************************************)
(* Model of the web content extraction service, docker/crawlee/main.py:    *)
(* the URL safety classifier (is_safe_url), the request validators, the    *)
(* fetch coroutine (crawl_url) and the two endpoints (crawl_single,        *)
(* crawl_batch) running on one asyncio event loop, with the Playwright     *)
(* browser, the DNS resolver and the text extractors as the environment.   *)
(***************************************************************************)
EXTENDS Integers, Sequences, FiniteSets, TLC

(***************************************************************************)
(* Configuration and bounds                                                *)
(***************************************************************************)

\* MAX_BATCH_SIZE = 10
MAX_BATCH_SIZE == 10

\* MAX_CONTENT_LENGTH = int(os.getenv("MAX_CONTENT_LENGTH", 1048576)): the
\* configured maximum; the model runs with a small configured value.
MAX_CONTENT_LENGTH == 2

\* The longest batch whose fetches the model runs in every interleaving.
MaxBatchLen == 2

\* How far above MAX_BATCH_SIZE the length of a submitted batch may be.
MaxOver == 1

\* The most addresses the resolver returns for one name.
MaxAddrs == 2

\* The most is_safe_url calls of one behaviour of the classifier alone.
MaxCalls == 2

\* The digits of MAX_CONTENT_LENGTH in the size error message (f-string).
RECURSIVE Digits(_)
Digits(n) == IF n < 10 THEN 1 ELSE 1 + Digits(n \div 10)

Min(a, b) == IF a < b THEN a ELSE b

RECURSIVE SumSeq(_)
SumSeq(s) == IF s = <<>> THEN 0 ELSE Head(s) + SumSeq(Tail(s))

RECURSIVE SelectCount(_, _)
\* sum(1 for r in results if r.success), over the flags of a sequence
SelectCount(s, flag) ==
    IF s = <<>> THEN 0
    ELSE (IF Head(s) = flag THEN 1 ELSE 0) + SelectCount(Tail(s), flag)

\* All sequences over S of length lo..hi
SeqsBetween(S, lo, hi) == UNION {[1..n -> S] : n \in lo..hi}

(***************************************************************************)
(* Python values                                                           *)
(***************************************************************************)

\* Optional[str]: None, or a string given by its text and its length
None == [isNone |-> TRUE, text |-> "", len |-> 0]
PyStr(t, n) == [isNone |-> FALSE, text |-> t, len |-> n]

\* s[:k]
Truncate(s, k) == [s EXCEPT !.len = Min(s.len, k)]

(***************************************************************************)
(* URLs, host names, the resolver                                          *)
(***************************************************************************)

\* Host names are sequences of characters, so that lower() is computed.
LowerChar(c) ==
    CASE c = "L" -> "l"
      [] c = "H" -> "h"
      [] c = "E" -> "e"
      [] OTHER -> c

Lower(h) == [i \in 1..Len(h) |-> LowerChar(h[i])]

h_localhost == <<"l", "o", "c", "a", "l", "h", "o", "s", "t">>
h_localdomain == h_localhost \o <<".">> \o <<"l", "o", "c", "a", "l", "d", "o", "m", "a", "i", "n">>
h_127 == <<"1", "2", "7", ".", "0", ".", "0", ".", "1">>
h_v6loop == <<":", ":", "1">>
h_zero == <<"0", ".", "0", ".", "0", ".", "0">>

\* The static deny-list of is_safe_url
DenyList == {h_localhost, h_localdomain, h_127, h_v6loop, h_zero}

h_example == <<"e", "x", ".", "c", "o", "m">>     \* a public site
h_rebind == <<"r", "b", ".", "i", "o">>           \* a name whose answer changes
h_intranet == <<"i", "n", ".", "l", "a", "n">>    \* a name of the private network
h_nxdomain == <<"n", "x", ".", "E", "u">>         \* a name that does not resolve
h_LocalHost == <<"L", "o", "c", "a", "l", "H", "o", "s", "t">>
h_none == <<>>                                    \* no host in the URL

\* A URL string, by the parts urlparse finds in it
Url(s, h) == [scheme |-> s, host |-> h]

u_example == Url("https", h_example)
u_rebind == Url("http", h_rebind)
u_intranet == Url("http", h_intranet)
u_nxdomain == Url("https", h_nxdomain)
u_LocalHost == Url("http", h_LocalHost)
u_ftp == Url("ftp", h_example)
u_nohost == Url("http", h_none)
u_127 == Url("http", h_127)
\* "http://[::1": urlparse raises ValueError (Invalid IPv6 URL)
u_badipv6 == Url("https", <<"[", ":", ":", "1">>)

\* The classes of ipaddress.ip_address; "unparseable" is an address string
\* ip_address() raises ValueError on.
AddrKinds == {"public", "private", "loopback", "link_local", "reserved",
              "multicast", "unparseable"}

is_private(a) == a \in {"private", "loopback", "link_local"}
is_loopback(a) == a = "loopback"
is_link_local(a) == a = "link_local"
\* Mutant: reserved addresses are not recognised.
is_reserved_never(a) == FALSE

is_reserved(a) == a = "reserved"
is_multicast(a) == a = "multicast"

\* The answers of socket.getaddrinfo: the resolved addresses in the
\* resolver's order, or "gaierror"
GaiError == <<"gaierror">>

\* socket.getaddrinfo raises an exception that is no gaierror (UnicodeError
\* on a name that cannot be encoded)
ResolverError == <<"UnicodeError">>

\* urlparse(url) raises ValueError: a bracket that is not closed
ParseFails(url) ==
    /\ \E i \in 1..Len(url.host) : url.host[i] = "["
    /\ \A i \in 1..Len(url.host) : url.host[i] # "]"

\* urlparse(url).hostname: lower-cased, None when absent
Hostname(url) == Lower(url.host)

\* Mutant: only the first resolved address is examined.
CheckAddrs_first_only(addrs) ==
    IF addrs = <<>> THEN "ok"
    ELSE LET ip == Head(addrs) IN
         IF ip = "unparseable" THEN "error"
         ELSE IF is_private(ip) \/ is_loopback(ip) \/ is_link_local(ip)
                 \/ is_reserved(ip) \/ is_multicast(ip)
              THEN "unsafe"
              ELSE "ok"

\* The loop of is_safe_url over the resolved addresses: "unsafe" at the
\* first blocked address, "error" when ip_address raises, else "ok".
RECURSIVE CheckAddrs(_)
CheckAddrs(addrs) ==
    IF addrs = <<>> THEN "ok"
    ELSE LET ip == Head(addrs) IN
         IF ip = "unparseable" THEN "error"
         ELSE IF is_private(ip) \/ is_loopback(ip) \/ is_link_local(ip)
                 \/ is_reserved(ip) \/ is_multicast(ip)
              THEN "unsafe"
              ELSE CheckAddrs(Tail(addrs))

\* Mutant: a name that does not resolve is rejected.
is_safe_url_gai_closed(url, resolver) ==
    IF ParseFails(url) THEN FALSE
    ELSE IF url.scheme \notin {"http", "https"} THEN FALSE
    ELSE LET hostname == Hostname(url) IN
         IF hostname = <<>> THEN FALSE
         ELSE IF Lower(hostname) \in DenyList THEN FALSE
         ELSE LET answer == resolver[hostname] IN
              IF answer = GaiError THEN FALSE
              ELSE IF answer = ResolverError THEN FALSE
              ELSE CheckAddrs(answer) = "ok"

\* is_safe_url(url), with the resolver's answers as `resolver`
is_safe_url(url, resolver) ==
    IF ParseFails(url) THEN FALSE
    ELSE IF url.scheme \notin {"http", "https"} THEN FALSE
    ELSE LET hostname == Hostname(url) IN
         IF hostname = <<>> THEN FALSE
         ELSE IF Lower(hostname) \in DenyList THEN FALSE
         ELSE LET answer == resolver[hostname] IN
              IF answer = GaiError THEN TRUE
              ELSE IF answer = ResolverError THEN FALSE
              ELSE CheckAddrs(answer) = "ok"

\* Whether is_safe_url(url) reaches socket.getaddrinfo
Consults(url) ==
    /\ ~ParseFails(url)
    /\ url.scheme \in {"http", "https"}
    /\ Hostname(url) # <<>>
    /\ Lower(Hostname(url)) \notin DenyList

\* What socket.getaddrinfo answers to is_safe_url(url): <<>> when it is
\* not called
Lookup(url, resolver) ==
    IF Consults(url) THEN resolver[Hostname(url)] ELSE <<>>


\* The URLs a request may carry: the request schema (HttpUrl) admits only
\* http and https URLs with a host.
RequestUrls == {u_example, u_rebind, u_intranet, u_nxdomain, u_LocalHost}

\* The names the resolver is asked about, and its possible answers
ResolverHosts == {h_example, h_rebind, h_intranet, Lower(h_nxdomain), h_localhost}

DnsStates ==
    {[h \in ResolverHosts |->
        CASE h = h_example -> <<"public", "public">>
          [] h = h_intranet -> <<"private">>
          [] h = h_localhost -> <<"loopback">>
          [] h = h_rebind -> r
          [] OTHER -> GaiError] : r \in {<<"public">>, <<"public", "private">>}}

(***************************************************************************)
(* Rendered pages and text extraction                                      *)
(***************************************************************************)

\* A character of the rendered HTML: the element it belongs to and its
\* width in UTF-8 bytes.
c_text == [tag |-> "p", w |-> 1]
c_script == [tag |-> "script", w |-> 1]
c_nav == [tag |-> "nav", w |-> 2]
HtmlChars == {c_text, c_script, c_nav}

\* The documents page.content() may return
HtmlDocs == SeqsBetween(HtmlChars, 1, MAX_CONTENT_LENGTH + 1)

\* len(html): the number of characters of a Python str
PyLen(html) == Len(html)

\* len(html.encode("utf-8"))
ByteLen(html) == SumSeq([i \in 1..Len(html) |-> html[i].w])

\* soup(tags) decomposed, then soup.get_text(...)
StripAndGetText(html, tags) ==
    LET keep(c) == c.tag \notin tags IN SelectSeq(html, keep)

\* Document(html).summary() as text: the article's own characters
Summary(html) ==
    LET article(c) == c.tag = "p" IN SelectSeq(html, article)

FallbackTags == {"script", "style", "nav", "footer", "header"}
FullTextTags == {"script", "style"}

(***************************************************************************)
(* Exceptions of the environment                                           *)
(***************************************************************************)

Exc(c, m) == [cls |-> c, msg |-> m]

\* playwright.async_api.TimeoutError: a page operation exceeded the timeout
\* set by page.set_default_timeout(REQUEST_TIMEOUT)
E_page_timeout == Exc("playwright.TimeoutError", PyStr("Timeout exceeded", 25))
\* playwright.async_api.Error with a long call log
E_playwright == Exc("playwright.Error", PyStr("call log", 350))
\* navigation to a name that does not resolve
E_dns == Exc("playwright.Error", PyStr("net::ERR_NAME_NOT_RESOLVED", 26))
\* asyncio.TimeoutError (builtins.TimeoutError)
E_asyncio_timeout == Exc("asyncio.TimeoutError", PyStr("", 0))
\* an error of the HTML parser or of the extractor
E_parser == Exc("ParserError", PyStr("Document is empty", 17))

GatewayErrors == {E_page_timeout, E_playwright, E_asyncio_timeout}


\* The result of an awaited call that returned
Ok == Exc("ok", None)

(***************************************************************************)
(* crawl_url, one segment between two awaits at a time                     *)
(***************************************************************************)

\* result_data as crawl_url first builds it
InitResult(url) ==
    [url |-> url, title |-> None, content |-> <<>>, content_length |-> 0,
     success |-> FALSE, error |-> None]

\* The two except clauses of crawl_url
OnException(rd, e) ==
    IF e.cls = "asyncio.TimeoutError"
    THEN [rd EXCEPT !.error = PyStr("Request timed out", 17)]
    ELSE [rd EXCEPT !.error = Truncate(e.msg, 200)]

\* f"Content exceeds {MAX_CONTENT_LENGTH} bytes"
SizeError == PyStr("Content exceeds N bytes", 22 + Digits(MAX_CONTENT_LENGTH))

\* The size check on the rendered HTML
TooLarge(html) == PyLen(html) > MAX_CONTENT_LENGTH

\* A fetch: where the coroutine is suspended (pc), whether it holds an open
\* page, its local html and result_data, and whether it has opened a page
\* and called page.goto, and the exception its except clauses caught.
Task(pc, rd) ==
    [pc |-> pc, page |-> FALSE, opened |-> FALSE, navigated |-> FALSE,
     html |-> <<>>, rd |-> rd, caught |-> Ok, fallback |-> FALSE]

\* crawl_url up to its first await: the browser check, then browser.new_page()
Begin(url, b) ==
    IF b = "None"
    THEN Task("done", [InitResult(url) EXCEPT !.error = PyStr("Browser not initialized", 23)])
    ELSE Task("new_page", InitResult(url))

\* The finally clause, entered with result_data as rd: page.close() is
\* awaited when a page was opened, else crawl_url returns.
Finally(t, rd) ==
    IF t.page
    THEN [t EXCEPT !.pc = "close", !.rd = rd, !.html = <<>>]
    ELSE [t EXCEPT !.pc = "done", !.rd = rd, !.html = <<>>]

\* An awaited call of the try block raised e: the except clauses, then the
\* finally clause.
Catch(t, e) == Finally([t EXCEPT !.caught = e], OnException(t.rd, e))

\* browser.new_page() has completed with o, page.set_default_timeout with
\* o2; page.goto(url) is called.
AfterNewPage(t, o, o2) ==
    IF o # Ok THEN Catch(t, o)
    ELSE LET held == [t EXCEPT !.page = TRUE, !.opened = TRUE] IN
         IF o2 # Ok THEN Catch(held, o2)
         ELSE [held EXCEPT !.pc = "goto", !.navigated = TRUE]

\* page.goto() has completed with o; page.content() is called.
AfterGoto(t, o) ==
    IF o # Ok THEN Catch(t, o)
    ELSE [t EXCEPT !.pc = "content"]

\* page.content() has completed with o, returning html; the size check;
\* page.title() is called.
AfterContent(t, o, html) ==
    IF o # Ok THEN Catch(t, o)
    ELSE IF TooLarge(html) THEN Finally(t, [t.rd EXCEPT !.error = SizeError])
    ELSE [t EXCEPT !.pc = "title", !.html = html]

\* What the extraction libraries do on one document: readability's
\* Document (it may raise; its title may be empty) and BeautifulSoup.
ExtractorOutcomes ==
    {[readability |-> "ok", doc_title |-> TRUE, soup |-> "ok"],
     [readability |-> "ok", doc_title |-> FALSE, soup |-> "ok"],
     [readability |-> "raise", doc_title |-> FALSE, soup |-> "ok"],
     [readability |-> "raise", doc_title |-> FALSE, soup |-> "raise"]}

\* Mutant: content_length is left at its initial value.
WithContent_stale(rd, text) == [rd EXCEPT !.content = text, !.success = TRUE]

\* result_data with the extracted text, its length and success
WithContent(rd, text) ==
    [rd EXCEPT !.content = text, !.content_length = Len(text), !.success = TRUE]

\* Mutant: the fallback removes what the full-text branch removes.
ExtractMain_keeps_nav(rd, html, x) ==
    IF x.readability = "ok"
    THEN WithContent([rd EXCEPT !.title = IF x.doc_title THEN PyStr("doc", 3) ELSE rd.title],
                     Summary(html))
    ELSE WithContent(rd, StripAndGetText(html, FullTextTags))

\* The extraction of crawl_url in main-content mode, with its fallback
ExtractMain(rd, html, x) ==
    IF x.readability = "ok"
    THEN WithContent([rd EXCEPT !.title = IF x.doc_title THEN PyStr("doc", 3) ELSE rd.title],
                     Summary(html))
    ELSE WithContent(rd, StripAndGetText(html, FallbackTags))

\* The extraction of crawl_url in full-text mode
ExtractFull(rd, html, x) == WithContent(rd, StripAndGetText(html, FullTextTags))

\* The extraction raises out of its branch: BeautifulSoup fails in the
\* fallback of the main-content branch, or in the full-text branch.
ExtractionRaises(x, extract_main_content) ==
    /\ x.soup = "raise"
    /\ extract_main_content => x.readability = "raise"

\* page.title() has completed with o; the extraction runs; the finally
\* clause is entered.
AfterTitle(t, o, x, extract_main_content) ==
    IF o # Ok THEN Catch(t, o)
    ELSE LET titled == [t.rd EXCEPT !.title = PyStr("page", 4)]
             \* the except clause of the main-content branch is entered
             u == [t EXCEPT !.fallback = extract_main_content /\ x.readability = "raise"]
         IN
         IF ExtractionRaises(x, extract_main_content)
         THEN Catch([u EXCEPT !.rd = titled], E_parser)
         ELSE Finally(u, IF extract_main_content
                         THEN ExtractMain(titled, t.html, x)
                         ELSE ExtractFull(titled, t.html, x))

\* page.close() has completed with o: crawl_url returns result_data, or the
\* exception of close() leaves crawl_url.
AfterClose(t, o) ==
    IF o # Ok THEN [t EXCEPT !.pc = "raised"]
    ELSE [t EXCEPT !.pc = "done", !.page = FALSE]


(***************************************************************************)
(* The service                                                             *)
(***************************************************************************)

VARIABLES
    browser,    \* the global browser: "None", "open" (launched), "closed"
    dns,        \* the resolver's current answer for each name
    request,    \* the request being served: its kind, urls, extract_main_content
    stage,      \* "idle", "validate", "fetch", "done"
    verdicts,   \* the verdicts of the is_safe_url calls of the request's validator
    lookups,    \* what the resolver answered to each of these calls
    tasks,      \* the crawl_url coroutines of the request, by position
    completed,  \* the positions of the finished coroutines, in the order they finished
    response    \* the status of the response and its body

vars == <<browser, dns, request, stage, verdicts, lookups, tasks, completed, response>>

NoRequest == [kind |-> "none", urls |-> <<>>, extract_main_content |-> TRUE]
Pending == [status |-> "pending", body |-> <<>>]
Response(status, body) == [status |-> status, body |-> body]

Finished(t) == t.pc \in {"done", "raised"}
AllFinished == \A i \in 1..Len(tasks) : Finished(tasks[i])

\* The server takes a request when the previous one is answered and none of
\* its fetches is still running.
Ready == stage \in {"idle", "done"} /\ AllFinished

Init ==
    /\ browser = "None"
    /\ dns \in DnsStates
    /\ request = NoRequest
    /\ stage = "idle"
    /\ verdicts = <<>>
    /\ lookups = <<>>
    /\ tasks = <<>>
    /\ completed = <<>>
    /\ response = Pending

\* lifespan, before the yield: the browser is launched
Startup ==
    /\ browser = "None"
    /\ browser' = "open"
    /\ UNCHANGED <<dns, request, stage, verdicts, lookups, tasks, completed, response>>

\* lifespan, after the yield: browser.close(); the global keeps the handle
Shutdown ==
    /\ browser = "open"
    /\ browser' = "closed"
    /\ UNCHANGED <<dns, request, stage, verdicts, lookups, tasks, completed, response>>

\* The resolver's answer for a name changes
DnsChange ==
    /\ \E d \in DnsStates : d # dns /\ dns' = d
    /\ UNCHANGED <<browser, request, stage, verdicts, lookups, tasks, completed, response>>

\* A request body has been parsed: the field validator starts.
Accept(kind, urls, mode) ==
    /\ request' = [kind |-> kind, urls |-> urls, extract_main_content |-> mode]
    /\ verdicts' = <<>>
    /\ lookups' = <<>>
    /\ tasks' = <<>>
    /\ completed' = <<>>
    /\ UNCHANGED <<browser, dns>>

\* POST /crawl: CrawlRequest is built from the body
SubmitSingle(url, mode) ==
    /\ Ready
    /\ Accept("single", <<url>>, mode)
    /\ stage' = "validate"
    /\ response' = Pending

\* Mutant: the cap is exclusive.
BatchTooLarge_ge(v) == Len(v) >= MAX_BATCH_SIZE

\* The size check of BatchCrawlRequest.validate_urls
BatchTooLarge(v) == Len(v) > MAX_BATCH_SIZE

\* POST /crawl/batch: BatchCrawlRequest is built from the body;
\* validate_urls first checks the size of the batch.
SubmitBatch(urls, mode) ==
    /\ Ready
    /\ Accept("batch", urls, mode)
    /\ IF BatchTooLarge(urls)
       THEN stage' = "done" /\ response' = Response("422", <<>>)
       ELSE stage' = "validate" /\ response' = Pending

\* Mutant: the validator ignores the verdict.
ValidatorRaises_never(safe) == FALSE

\* `if not is_safe_url(str(url)): raise ValueError(...)` of both validators
ValidatorRaises(safe) == ~safe

\* Mutant: the verdict of an earlier call of the request on the same URL
\* is reused.
Verdict_cached(url) ==
    IF \E k \in 1..Len(verdicts) : request.urls[k] = url
    THEN verdicts[CHOOSE k \in 1..Len(verdicts) : request.urls[k] = url]
    ELSE is_safe_url(url, dns)

\* The call is_safe_url(str(url)) of a validator, answered by the resolver
\* as it is at the time of the call
Verdict(url) == is_safe_url(url, dns)

\* validate_url_safety, and one turn of the loop of validate_urls: the next
\* URL is classified; a rejected URL raises ValueError (422).
Classify ==
    /\ stage = "validate"
    /\ Len(verdicts) < Len(request.urls)
    /\ LET url == request.urls[Len(verdicts) + 1]
           v == Verdict(url)
       IN
       /\ verdicts' = Append(verdicts, v)
       /\ lookups' = Append(lookups, Lookup(url, dns))
       /\ IF ValidatorRaises(v)
          THEN stage' = "done" /\ response' = Response("422", <<>>)
          ELSE UNCHANGED <<stage, response>>
    /\ UNCHANGED <<browser, dns, request, tasks, completed>>

\* The coroutines the endpoint creates: crawl_single awaits one crawl_url,
\* crawl_batch gathers one per URL; each runs to its first await.
Spawn(urls, b) == [i \in 1..Len(urls) |-> Begin(urls[i], b)]

\* The validator has returned: the endpoint function is called.
Dispatch ==
    /\ stage = "validate"
    /\ Len(verdicts) = Len(request.urls)
    /\ tasks' = Spawn(request.urls, browser)
    /\ completed' = SelectSeq([i \in 1..Len(request.urls) |-> i],
                              LAMBDA i : Finished(tasks'[i]))
    /\ stage' = "fetch"
    /\ UNCHANGED <<browser, dns, request, verdicts, lookups, response>>

\* What a call on the browser or on a page may do: it fails when the
\* browser is not running.
Outcomes == IF browser = "open" THEN {Ok} \cup GatewayErrors ELSE GatewayErrors

\* What browser.new_page() may do: no page timeout applies to it.
NewPageOutcomes == IF browser = "open" THEN {Ok, E_playwright} ELSE {E_playwright}

\* What page.goto may do: in a running browser, a name that does not
\* resolve is a navigation error.
GotoOutcomes(url) ==
    IF browser = "open" /\ dns[Hostname(url)] = GaiError THEN {E_dns} ELSE Outcomes

\* Coroutine i resumes and runs to its next await, or to its end.
Step(i, t) ==
    /\ tasks' = [tasks EXCEPT ![i] = t]
    /\ completed' = IF Finished(t) THEN Append(completed, i) ELSE completed
    /\ UNCHANGED <<browser, dns, request, stage, verdicts, lookups, response>>

NewPageDone(i, o, o2) ==
    /\ i \in 1..Len(tasks) /\ tasks[i].pc = "new_page"
    /\ Step(i, AfterNewPage(tasks[i], o, o2))

GotoDone(i, o) ==
    /\ i \in 1..Len(tasks) /\ tasks[i].pc = "goto"
    /\ Step(i, AfterGoto(tasks[i], o))

ContentDone(i, o, html) ==
    /\ i \in 1..Len(tasks) /\ tasks[i].pc = "content"
    /\ Step(i, AfterContent(tasks[i], o, html))

TitleDone(i, o, x) ==
    /\ i \in 1..Len(tasks) /\ tasks[i].pc = "title"
    /\ Step(i, AfterTitle(tasks[i], o, x, request.extract_main_content))

\* page.close() succeeds also on a page of a closed browser.
CloseDone(i, o) ==
    /\ i \in 1..Len(tasks) /\ tasks[i].pc = "close"
    /\ Step(i, AfterClose(tasks[i], o))

\* Mutant: the results in the order the coroutines finished (as_completed).
Gathered_as_completed(ts) == [i \in 1..Len(ts) |-> ts[completed[i]].rd]

\* The results of the gathered coroutines, in the order of the awaitables
Gathered(ts) == [i \in 1..Len(ts) |-> ts[i].rd]

\* Mutant: failed is not reduced by the successes.
BatchResult_failed_total(results) ==
    [results |-> results, total |-> Len(results),
     successful |-> SelectCount([i \in 1..Len(results) |-> results[i].success], TRUE),
     failed |-> Len(results)]

\* BatchCrawlResult as crawl_batch builds it
BatchResult(results) ==
    LET successful == SelectCount([i \in 1..Len(results) |-> results[i].success], TRUE) IN
    [results |-> results, total |-> Len(results), successful |-> successful,
     failed |-> Len(results) - successful]

\* The body the endpoint returns from the finished coroutines
Body(kind, ts) ==
    IF kind = "single" THEN ts[1].rd ELSE BatchResult(Gathered(ts))

\* The awaited crawl_url, or asyncio.gather, has returned: 200
Return ==
    /\ stage = "fetch"
    /\ \A i \in 1..Len(tasks) : tasks[i].pc = "done"
    /\ stage' = "done"
    /\ response' = Response("200", <<Body(request.kind, tasks)>>)
    /\ UNCHANGED <<browser, dns, request, verdicts, lookups, tasks, completed>>

\* An exception has left a crawl_url: it leaves the awaiting endpoint at
\* once (gather without return_exceptions), while the other coroutines run on.
Raise ==
    /\ stage = "fetch"
    /\ \E i \in 1..Len(tasks) : tasks[i].pc = "raised"
    /\ stage' = "done"
    /\ response' = Response("500", <<>>)
    /\ UNCHANGED <<browser, dns, request, verdicts, lookups, tasks, completed>>

Modes == BOOLEAN

\* The batches the model submits: every batch of at most MaxBatchLen URLs,
\* and batches above the cap.
Oversized == {[i \in 1..n |-> u_example] :
                n \in (MAX_BATCH_SIZE + 1)..(MAX_BATCH_SIZE + MaxOver)}
Batches == SeqsBetween(RequestUrls, 0, MaxBatchLen) \cup Oversized

Next ==
    \/ Startup
    \/ Shutdown
    \/ DnsChange
    \/ \E u \in RequestUrls, m \in Modes : SubmitSingle(u, m)
    \/ \E us \in Batches, m \in Modes : SubmitBatch(us, m)
    \/ Classify
    \/ Dispatch
    \/ \E i \in 1..Len(tasks), o \in NewPageOutcomes, o2 \in {Ok, E_playwright} : NewPageDone(i, o, o2)
    \/ \E i \in 1..Len(tasks) : \E o \in GotoOutcomes(tasks[i].rd.url) : GotoDone(i, o)
    \/ \E i \in 1..Len(tasks), o \in Outcomes, h \in HtmlDocs : ContentDone(i, o, h)
    \/ \E i \in 1..Len(tasks), o \in Outcomes, x \in ExtractorOutcomes : TitleDone(i, o, x)
    \/ \E i \in 1..Len(tasks), o \in {Ok, E_playwright} : CloseDone(i, o)
    \/ Return
    \/ Raise

Spec == Init /\ [][Next]_vars


(***************************************************************************)
(* The service under batches around the size cap.  A batch of               *)
(* MAX_BATCH_SIZE URLs runs that many fetches; this specification runs      *)
(* them on one schedule (each coroutine finishes before the next one is     *)
(* resumed) with a browser that does not fail, so that full batches can be  *)
(* explored.                                                                *)
(***************************************************************************)

CapBatches == {[i \in 1..n |-> u] :
                 n \in (MAX_BATCH_SIZE - 1)..(MAX_BATCH_SIZE + MaxOver),
                 u \in {u_example, u_intranet}}

\* The coroutine the schedule resumes next
Turn(i) ==
    /\ i \in 1..Len(tasks)
    /\ ~Finished(tasks[i])
    /\ \A j \in 1..(i - 1) : Finished(tasks[j])

NextCap ==
    \/ Startup
    \/ \E us \in CapBatches, m \in Modes : SubmitBatch(us, m)
    \/ Classify
    \/ Dispatch
    \/ \E i \in 1..Len(tasks) : Turn(i) /\ NewPageDone(i, Ok, Ok)
    \/ \E i \in 1..Len(tasks) : Turn(i) /\ GotoDone(i, Ok)
    \/ \E i \in 1..Len(tasks) : Turn(i) /\ ContentDone(i, Ok, <<c_text, c_text>>)
    \/ \E i \in 1..Len(tasks) : Turn(i) /\ TitleDone(i, Ok, CHOOSE x \in ExtractorOutcomes : x.doc_title)
    \/ \E i \in 1..Len(tasks) : Turn(i) /\ CloseDone(i, Ok)
    \/ Return

SpecCap == Init /\ [][NextCap]_vars

(***************************************************************************)
(* The classifier alone: is_safe_url is called on URLs of every shape,     *)
(* with a resolver that gives any answer of up to MaxAddrs addresses.      *)
(***************************************************************************)

\* What socket.getaddrinfo can do: return one address or more, raise
\* gaierror, or raise another exception
Answers == SeqsBetween(AddrKinds, 1, MaxAddrs) \cup {GaiError, ResolverError}

\* The resolver gives the answer `a` to the name it is asked about.
ClassifyResolvers == {[h \in ResolverHosts |-> a] : a \in Answers}

\* The URLs is_safe_url is called on
ClassifyUrls == {u_example, u_nxdomain, u_LocalHost, u_127, u_ftp, u_nohost,
                 u_badipv6}

InitClassify ==
    /\ browser = "None"
    /\ dns \in ClassifyResolvers
    /\ request = [kind |-> "call", urls |-> <<>>, extract_main_content |-> TRUE]
    /\ stage = "idle"
    /\ verdicts = <<>>
    /\ lookups = <<>>
    /\ tasks = <<>>
    /\ completed = <<>>
    /\ response = Pending

\* is_safe_url(url) is called and returns; request.urls lists the
\* arguments of the calls so far.
IsSafeUrlCalled(url) ==
    /\ request.kind = "call"
    /\ Len(verdicts) < MaxCalls
    /\ request' = [request EXCEPT !.urls = Append(@, url)]
    /\ verdicts' = Append(verdicts, Verdict(url))
    /\ lookups' = Append(lookups, Lookup(url, dns))
    /\ UNCHANGED <<browser, dns, stage, tasks, completed, response>>

NextClassify == \E url \in ClassifyUrls : IsSafeUrlCalled(url)

SpecClassify == InitClassify /\ [][NextClassify]_vars


(***************************************************************************)
(* Properties                                                              *)
(***************************************************************************)

IsBatch == request.kind = "batch"
Positions == 1..Len(tasks)
Rejected == \E k \in 1..Len(verdicts) : ~verdicts[k]
Answered200 == response.status = "200"

\* C1 (SSRF gate): a coroutine has called page.goto(url) only if the
\* validator of the same request called is_safe_url on that URL and got
\* True; when is_safe_url returned False for a URL of the request, no URL
\* of the request is navigated to.
C1_SsrfGate ==
    /\ \A i \in Positions :
          tasks[i].navigated =>
             /\ i <= Len(verdicts)
             /\ verdicts[i]
             /\ tasks[i].rd.url = request.urls[i]
    /\ Rejected => \A i \in Positions : ~tasks[i].navigated

\* A URL was classified as allowed and then navigated to.
C1_Witness ==
    \E i \in Positions :
        tasks[i].navigated /\ verdicts[i] /\ request.urls[i] = u_rebind

\* C2 (crawl_url never raises): no exception leaves crawl_url, and every
\* exception it caught is returned as a result with success = False.
C2_NeverRaises ==
    \A i \in Positions :
        /\ tasks[i].pc # "raised"
        /\ (tasks[i].pc = "done" /\ tasks[i].caught # Ok) => ~tasks[i].rd.success

\* C3 (batch fault isolation): a failing fetch never raises out of
\* crawl_batch; every answered batch has one result per URL.
C3_BatchIsolation ==
    IsBatch =>
        /\ response.status # "500"
        /\ Answered200 => Len(response.body[1].results) = Len(request.urls)

\* C4 as stated (a rejected URL is one failed outcome of the batch): a batch
\* within the cap with a rejected URL is answered with a result per URL, the
\* rejected one failed.
C4_UnsafeIsPerItem ==
    (IsBatch /\ ~BatchTooLarge(request.urls) /\ stage = "done" /\ Rejected) =>
        /\ Answered200
        /\ Len(response.body[1].results) = Len(request.urls)
        /\ \A k \in 1..Len(verdicts) :
              ~verdicts[k] => ~response.body[1].results[k].success

\* C4 as amended: a batch within the cap with a URL the classifier rejects
\* is rejected as a whole by the validator: no result is produced and no
\* fetch of the batch is started.
C4_UnsafeRejectsBatch ==
    (IsBatch /\ Rejected) =>
        /\ stage = "done"
        /\ response.status = "422"
        /\ tasks = <<>>

\* A batch of two URLs, the second rejected, has been refused.
C4_Witness ==
    /\ IsBatch
    /\ Len(request.urls) = 2
    /\ verdicts = <<TRUE, FALSE>>
    /\ response.status = "422"

\* C5 (batch order): the results of an answered batch are as many as the
\* URLs, and the i-th result is that of the i-th URL, whatever the order
\* in which the fetches finished.
C5_OrderPreserved ==
    (IsBatch /\ Answered200) =>
        LET results == response.body[1].results IN
        /\ Len(results) = Len(request.urls)
        /\ \A i \in 1..Len(results) : results[i].url = request.urls[i]

\* A batch of two different URLs was answered after its second fetch
\* finished first.
C5_Witness ==
    /\ IsBatch /\ Answered200
    /\ Len(request.urls) = 2
    /\ request.urls[1] # request.urls[2]
    /\ completed = <<2, 1>>

\* C6 (batch counts): in every answered batch, the empty one included,
\* total = successful + failed = len(results), successful counts the
\* results with success true and failed those with success false.
C6_Counts ==
    (IsBatch /\ Answered200) =>
        LET b == response.body[1]
            ok == {i \in 1..Len(b.results) : b.results[i].success}
            ko == {i \in 1..Len(b.results) : ~b.results[i].success}
        IN /\ b.total = Len(b.results)
           /\ b.total = b.successful + b.failed
           /\ b.successful = Cardinality(ok)
           /\ b.failed = Cardinality(ko)

\* A batch was answered with one success and one failure.
C6_Witness ==
    /\ IsBatch /\ Answered200
    /\ response.body[1].total = 2
    /\ response.body[1].successful = 1
    /\ response.body[1].failed = 1

\* C7 (batch size cap): a batch of more than MAX_BATCH_SIZE URLs is refused
\* with no URL classified, no page opened, no navigation and no result; a
\* batch of exactly MAX_BATCH_SIZE URLs is refused only for a rejected URL.
C7_SizeCap ==
    /\ (IsBatch /\ Len(request.urls) > MAX_BATCH_SIZE) =>
          /\ response.status = "422"
          /\ verdicts = <<>>
          /\ \A i \in Positions : ~tasks[i].opened /\ ~tasks[i].navigated
    /\ (IsBatch /\ Len(request.urls) = MAX_BATCH_SIZE /\ response.status = "422") =>
          Rejected

\* A batch of MAX_BATCH_SIZE + 1 URLs has been refused.
C7_Witness ==
    /\ IsBatch
    /\ Len(request.urls) = MAX_BATCH_SIZE + 1
    /\ response.status = "422"

C9_ByteCap ==
    \A i \in Positions :
        tasks[i].pc = "title" => ByteLen(tasks[i].html) <= MAX_CONTENT_LENGTH

\* C10 (timeout message): a fetch whose page operation exceeded the page's
\* timeout reports exactly "Request timed out".
C10_TimeoutMessage ==
    \A i \in Positions :
        tasks[i].caught = E_page_timeout =>
            tasks[i].rd.error = PyStr("Request timed out", 17)

\* The address classes is_safe_url blocks
BlockedKinds == {"private", "loopback", "link_local", "reserved", "multicast"}

\* C11 (any-unsafe-address rule): whenever the resolver's answer to an
\* is_safe_url call holds at least one private, loopback, link-local,
\* reserved or multicast address, at whatever position and whatever the
\* other addresses are, the call returns False.
C11_AnyUnsafeAddress ==
    \A k \in 1..Len(verdicts) :
        (\E i \in 1..Len(lookups[k]) : lookups[k][i] \in BlockedKinds)
            => ~verdicts[k]

\* A name that resolves to a public address followed by a multicast one
\* was classified, and rejected.
C11_Witness ==
    \E k \in 1..Len(verdicts) :
        /\ request.urls[k] = u_example
        /\ lookups[k] = <<"public", "multicast">>
        /\ ~verdicts[k]

\* C12 (deferred-failure policy): an is_safe_url call whose name does not
\* resolve returns True, so the request is not rejected for it; the
\* coroutine that then navigates to that URL and returns, returns a failure
\* whose error is the message of the navigation's exception (the name
\* resolution error of the browser when it is the one raised).
C12_DeferredFailure ==
    /\ \A k \in 1..Len(verdicts) : lookups[k] = GaiError => verdicts[k]
    /\ \A i \in Positions :
          (tasks[i].pc = "done" /\ tasks[i].navigated /\ lookups[i] = GaiError)
             => /\ ~tasks[i].rd.success
                /\ tasks[i].caught \in {E_dns} \cup GatewayErrors
                /\ tasks[i].rd.error = OnException(tasks[i].rd, tasks[i].caught).error
                /\ tasks[i].caught = E_dns
                      => tasks[i].rd.error = PyStr("net::ERR_NAME_NOT_RESOLVED", 26)

\* A URL whose name does not resolve was allowed and navigated to; its
\* coroutine returned the failure of the name resolution in the browser.
C12_Witness ==
    \E i \in Positions :
        /\ request.urls[i] = u_nxdomain
        /\ lookups[i] = GaiError /\ verdicts[i]
        /\ tasks[i].pc = "done" /\ tasks[i].navigated
        /\ tasks[i].caught = E_dns
        /\ ~tasks[i].rd.success
        /\ tasks[i].rd.error = PyStr("net::ERR_NAME_NOT_RESOLVED", 26)

\* The answer the resolver gives for the host of `url`
AnswerFor(url) ==
    IF Lower(url.host) \in DOMAIN dns THEN dns[Lower(url.host)] ELSE GaiError

\* The reference verdict: the scheme is http or https, a host name is
\* present, its lower-cased form is not deny-listed, and the resolution
\* either fails with gaierror or gives only addresses of no blocked class;
\* every other error gives a rejection.
RefAllowed(url, answer) ==
    /\ ~ParseFails(url)
    /\ url.scheme \in {"http", "https"}
    /\ url.host # <<>>
    /\ Lower(url.host) \notin DenyList
    /\ \/ answer = GaiError
       \/ /\ answer # ResolverError
          /\ \A i \in 1..Len(answer) :
                answer[i] \notin BlockedKinds \cup {"unparseable"}

\* C13 (classifier reference behaviour): for every URL and every answer of
\* the resolver, is_safe_url returns True exactly when the reference
\* verdict allows the URL.
C13_ReferenceBehaviour ==
    \A k \in 1..Len(verdicts) :
        verdicts[k] = RefAllowed(request.urls[k], AnswerFor(request.urls[k]))

\* A host name deny-listed but for its case was rejected, and a name that
\* resolves to public addresses only was allowed.
C13_Witness ==
    /\ Len(verdicts) = 2
    /\ request.urls = <<u_LocalHost, u_example>>
    /\ verdicts = <<FALSE, TRUE>>
    /\ lookups = << <<>>, <<"public", "public">> >>

\* C15 (page release): every page a crawl_url call has acquired is closed
\* when that call has ended, whatever the way it ended; so when every
\* coroutine of a request has ended, none of their pages is open.
C15_PageRelease ==
    \A i \in Positions : Finished(tasks[i]) => ~tasks[i].page

\* C16 (batch join): when crawl_batch has ended, with a result or with an
\* exception, every coroutine it gathered has ended and none of their pages
\* is open.
C16_BatchJoin ==
    (IsBatch /\ stage = "done" /\ tasks # <<>>) =>
        \A i \in Positions : Finished(tasks[i]) /\ ~tasks[i].page

\* C17 (browser unavailable): a crawl_url call made while the browser is
\* not running, not yet launched or already closed at shutdown, returns at
\* once the failure "Browser not initialized" and opens no page.
C17_BrowserUnavailable ==
    [][(stage = "validate" /\ stage' = "fetch" /\ browser # "open") =>
         \A i \in 1..Len(tasks') :
            /\ tasks'[i].pc = "done"
            /\ ~tasks'[i].opened
            /\ ~tasks'[i].rd.success
            /\ tasks'[i].rd.error = PyStr("Browser not initialized", 23)]_vars

\* The resolver that answers `a` to every name
Answering(a) == [h \in ResolverHosts |-> a]

\* C18 (no verdict caching): every verdict of a request is the one
\* is_safe_url gives for that URL with the answer the resolver gave at the
\* time of that very call, whatever was answered to earlier calls on the
\* same URL.
C18_NoVerdictCaching ==
    \A k \in 1..Len(verdicts) :
        /\ lookups[k] \in {Lookup(request.urls[k], d) : d \in DnsStates}
        /\ verdicts[k] = is_safe_url(request.urls[k], Answering(lookups[k]))

\* The same URL was classified twice and the resolver's answer changed in
\* between: the first call allowed it, the second rejected it.
C18_Witness ==
    /\ request.urls = <<u_rebind, u_rebind>>
    /\ lookups = << <<"public">>, <<"public", "private">> >>
    /\ verdicts = <<TRUE, FALSE>>

\* C19 as stated (extraction fallback): whenever the main-content
\* extraction has raised, the result of crawl_url is a success with no
\* error; no failure follows from the extraction.
C19_FallbackAlwaysSucceeds ==
    \A i \in Positions :
        tasks[i].fallback =>
            /\ tasks[i].rd.success
            /\ tasks[i].rd.error = None

\* C19 amended: when the main-content extraction has raised, the generic
\* extraction runs in its place; the result is a success with the text left
\* once script, style, nav, footer and header are removed, its length, and
\* no error, unless the generic extraction raised as well: then the result
\* is a failure with the message of that exception.
C19_FallbackOutcome ==
    \A i \in Positions :
        tasks[i].fallback =>
            \/ /\ tasks[i].caught = Ok
               /\ tasks[i].rd.success
               /\ tasks[i].rd.error = None
               /\ \A j \in 1..Len(tasks[i].rd.content) :
                     tasks[i].rd.content[j].tag \notin FallbackTags
               /\ tasks[i].rd.content_length = Len(tasks[i].rd.content)
            \/ /\ tasks[i].caught = E_parser
               /\ ~tasks[i].rd.success
               /\ tasks[i].rd.error = Truncate(E_parser.msg, 200)

\* The main-content extraction raised on a page whose text is not empty;
\* crawl_url returned the success of the generic extraction.
C19_Witness ==
    \E i \in Positions :
        /\ request.extract_main_content
        /\ tasks[i].fallback /\ tasks[i].pc = "done"
        /\ tasks[i].rd.success /\ tasks[i].rd.error = None
        /\ tasks[i].rd.content # <<>>

\* C20 (all-or-nothing batch admission): the validator of a batch checks
\* the size first, an oversized batch being rejected with no URL
\* classified; it then classifies the URLs one by one in the order of the
\* input, and coroutines exist only when every URL was classified and
\* allowed; a rejected URL ends the classification, rejects the whole
\* request and no coroutine is created, so no page is opened.
C20_AllOrNothing ==
    IsBatch =>
        /\ BatchTooLarge(request.urls) =>
              /\ verdicts = <<>> /\ tasks = <<>>
              /\ stage = "done" /\ response.status = "422"
        /\ Len(verdicts) <= Len(request.urls)
        /\ \A k \in 1..Len(verdicts) :
              /\ Consults(request.urls[k]) <=> lookups[k] # <<>>
              /\ Consults(request.urls[k]) =>
                    \E d \in DnsStates : lookups[k] = d[Hostname(request.urls[k])]
        /\ \A k \in 1..(Len(verdicts) - 1) : verdicts[k]
        /\ tasks # <<>> =>
              /\ Len(verdicts) = Len(request.urls)
              /\ \A k \in 1..Len(verdicts) : verdicts[k]
        /\ Rejected =>
              /\ stage = "done" /\ response.status = "422"
              /\ tasks = <<>>

\* A batch whose first URL is unsafe was rejected after one
\* classification: the second URL was not classified, no coroutine exists.
C20_Witness ==
    /\ IsBatch
    /\ request.urls = <<u_intranet, u_example>>
    /\ verdicts = <<FALSE>>
    /\ lookups = << <<"private">> >>
    /\ stage = "done" /\ response.status = "422"
    /\ tasks = <<>>

====
